---- MODULE Spec2Model ----
(***************************************************************************)
(* Model of rinex/src/epoch/mod.rs: the Epoch value type (a calendar       *)
(* instant plus a sampling flag), its text parser Epoch::from_str, its     *)
(* four formatters and its Duration arithmetic.                            *)
(*                                                                         *)
(* Text is a sequence of one-character strings.  A 32-bit unsigned value   *)
(* is a pair <<hi, lo>> standing for hi * 2^16 + lo, so that products that *)
(* leave the 32-bit range can be computed and then wrapped or trapped the  *)
(* way the build does.                                                     *)
(***************************************************************************)
EXTENDS Integers, Sequences, FiniteSets, TLC

VARIABLES overflow_checks, pc, line, res, cur, out, fmt, orig, hist

vars == <<overflow_checks, pc, line, res, cur, out, fmt, orig, hist>>

(***************************************************************************)
(* Characters                                                              *)
(***************************************************************************)
DigitChars == {"0", "1", "2", "3", "4", "5", "6", "7", "8", "9"}

DigitVal(c) ==
    CASE c = "0" -> 0 [] c = "1" -> 1 [] c = "2" -> 2 [] c = "3" -> 3
      [] c = "4" -> 4 [] c = "5" -> 5 [] c = "6" -> 6 [] c = "7" -> 7
      [] c = "8" -> 8 [] c = "9" -> 9

DigitChar(n) ==
    CASE n = 0 -> "0" [] n = 1 -> "1" [] n = 2 -> "2" [] n = 3 -> "3"
      [] n = 4 -> "4" [] n = 5 -> "5" [] n = 6 -> "6" [] n = 7 -> "7"
      [] n = 8 -> "8" [] n = 9 -> "9"

\* char::is_ascii_whitespace: space, tab, line feed, form feed, carriage return
IsAsciiWhitespace(c) == c \in {" ", "\t", "\n", "\f", "\r"}

(***************************************************************************)
(* 32-bit unsigned values as <<hi, lo>> = hi * 2^16 + lo                   *)
(***************************************************************************)
B16 == 256 * 256

WNorm(hi, lo) == <<hi + (lo \div B16), lo % B16>>

WOfInt(n) == WNorm(0, n)

\* k <= 10000 and w[1] < 2^17 keep every intermediate below 2^31
WMulSmall(w, k) == WNorm(w[1] * k, w[2] * k)

WAddSmall(w, d) == WNorm(w[1], w[2] + d)

WLess(a, b) == a[1] < b[1] \/ (a[1] = b[1] /\ a[2] < b[2])

\* the value fits a u32
U32Fits(w) == w[1] < B16

\* the value modulo 2^32
U32Wrap(w) == <<w[1] % B16, w[2]>>

W1e9 == WNorm(15258, 51712 + 0)

\* a value below 2^31 as a plain integer
WToInt(w) == (w[1] * B16) + w[2]

(***************************************************************************)
(* core::num::from_str_radix(src, 10) for u8, i32 and u32                  *)
(***************************************************************************)
ParseOk(v) == [ok |-> TRUE, val |-> v]
ParseErr == [ok |-> FALSE, val |-> 0]

AllDigits(s) == \A i \in 1..Len(s) : s[i] \in DigitChars

Tail1(s) == SubSeq(s, 2, Len(s))

\* checked accumulation acc * 10 + d with the result at most max
RECURSIVE AccUp(_, _, _)
AccUp(s, acc, max) ==
    IF s = <<>> THEN ParseOk(acc)
    ELSE LET d == DigitVal(Head(s))
         IN  IF acc > (max - d) \div 10 THEN ParseErr
             ELSE AccUp(Tail(s), (acc * 10) + d, max)

\* checked accumulation acc * 10 - d with the result at least min (min < 0)
RECURSIVE AccDown(_, _, _)
AccDown(s, acc, min) ==
    IF s = <<>> THEN ParseOk(acc)
    ELSE LET d == DigitVal(Head(s))
         IN  IF acc < ((min + d) + 9) \div 10 THEN ParseErr
             ELSE AccDown(Tail(s), (acc * 10) - d, min)

I32Max == 2147483647 + 0
I32Min == (0 - 2147483647) - 1
U8Max == 255 + 0

u8_from_str_radix(src) ==
    IF src = <<>> THEN ParseErr
    ELSE LET digits == IF Head(src) = "+" THEN Tail1(src) ELSE src
         IN  IF digits = <<>> \/ ~AllDigits(digits) THEN ParseErr
             ELSE AccUp(digits, 0, U8Max)

i32_from_str_radix(src) ==
    IF src = <<>> THEN ParseErr
    ELSE LET signed == Head(src) \in {"+", "-"}
             digits == IF signed THEN Tail1(src) ELSE src
         IN  IF digits = <<>> \/ ~AllDigits(digits) THEN ParseErr
             ELSE IF Head(src) = "-" THEN AccDown(digits, 0, I32Min)
             ELSE AccUp(digits, 0, I32Max)

RECURSIVE AccU32(_, _)
AccU32(s, acc) ==
    IF s = <<>> THEN ParseOk(acc)
    ELSE LET m == WMulSmall(acc, 10)
             a == WAddSmall(m, DigitVal(Head(s)))
         IN  IF ~U32Fits(m) \/ ~U32Fits(a) THEN [ok |-> FALSE, val |-> <<0, 0>>]
             ELSE AccU32(Tail(s), a)

u32_from_str_radix(src) ==
    IF src = <<>> THEN [ok |-> FALSE, val |-> <<0, 0>>]
    ELSE LET digits == IF Head(src) = "+" THEN Tail1(src) ELSE src
         IN  IF digits = <<>> \/ ~AllDigits(digits)
             THEN [ok |-> FALSE, val |-> <<0, 0>>]
             ELSE AccU32(digits, <<0, 0>>)

(***************************************************************************)
(* str::split_ascii_whitespace, str::trim, str::find(".")                  *)
(***************************************************************************)
RECURSIVE SplitFrom(_, _, _)
SplitFrom(s, tok, acc) ==
    IF s = <<>> THEN (IF tok = <<>> THEN acc ELSE Append(acc, tok))
    ELSE IF IsAsciiWhitespace(Head(s))
         THEN SplitFrom(Tail(s), <<>>, IF tok = <<>> THEN acc ELSE Append(acc, tok))
         ELSE SplitFrom(Tail(s), Append(tok, Head(s)), acc)

split_ascii_whitespace(s) == SplitFrom(s, <<>>, <<>>)

RECURSIVE TrimStart(_)
TrimStart(s) ==
    IF s # <<>> /\ IsAsciiWhitespace(Head(s)) THEN TrimStart(Tail(s)) ELSE s

RECURSIVE TrimEnd(_)
TrimEnd(s) ==
    IF s # <<>> /\ IsAsciiWhitespace(s[Len(s)])
    THEN TrimEnd(SubSeq(s, 1, Len(s) - 1)) ELSE s

trim(s) == TrimEnd(TrimStart(s))

\* index of the first ".", 0 when there is none (Option::None)
find_dot(s) ==
    IF \E i \in 1..Len(s) : s[i] = "."
    THEN CHOOSE i \in 1..Len(s) : s[i] = "." /\ \A j \in 1..(i - 1) : s[j] # "."
    ELSE 0

(***************************************************************************)
(* epoch::flag::EpochFlag: its variants, FromStr and Display               *)
(***************************************************************************)
EpochFlags == {"Ok", "PowerFailure", "AntennaBeingMoved", "NewSiteOccupation",
               "HeaderInformationFollows", "ExternalEvent", "CycleSlip"}

\* EpochFlag::default()
EpochFlag_default == "Ok"

EpochFlag_from_str(s) ==
    CASE s = <<"0">> -> [ok |-> TRUE, val |-> "Ok"]
      [] s = <<"1">> -> [ok |-> TRUE, val |-> "PowerFailure"]
      [] s = <<"2">> -> [ok |-> TRUE, val |-> "AntennaBeingMoved"]
      [] s = <<"3">> -> [ok |-> TRUE, val |-> "NewSiteOccupation"]
      [] s = <<"4">> -> [ok |-> TRUE, val |-> "HeaderInformationFollows"]
      [] s = <<"5">> -> [ok |-> TRUE, val |-> "ExternalEvent"]
      [] s = <<"6">> -> [ok |-> TRUE, val |-> "CycleSlip"]
      [] OTHER -> [ok |-> FALSE, val |-> "Ok"]

EpochFlag_fmt(f) ==
    CASE f = "Ok" -> <<"0">>
      [] f = "PowerFailure" -> <<"1">>
      [] f = "AntennaBeingMoved" -> <<"2">>
      [] f = "NewSiteOccupation" -> <<"3">>
      [] f = "HeaderInformationFollows" -> <<"4">>
      [] f = "ExternalEvent" -> <<"5">>
      [] f = "CycleSlip" -> <<"6">>

(***************************************************************************)
(* The calendar engine (hifitime) at its boundary: an instant is a day     *)
(* number counted from 1970-01-01, a second of the day and a nanosecond of *)
(* the second; a Duration has the same three components.                   *)
(***************************************************************************)
SecondsPerDay == 24 * 3600
NanosPerSecond == 1000 * 1000 * 1000

is_leap_year(y) == (y % 4 = 0 /\ y % 100 # 0) \/ y % 400 = 0

days_in_month(y, m) ==
    CASE m \in {1, 3, 5, 7, 8, 10, 12} -> 31
      [] m \in {4, 6, 9, 11} -> 30
      [] m = 2 -> IF is_leap_year(y) THEN 29 ELSE 28
      [] OTHER -> 0

is_gregorian_valid(y, m, d, hh, mm, ss, nanos) ==
    /\ m >= 1 /\ m <= 12
    /\ d >= 1 /\ d <= days_in_month(y, m)
    /\ hh < 24 /\ mm < 60 /\ ss < 60
    /\ WLess(nanos, W1e9)

days_from_civil(y, m, d) ==
    LET yy == IF m <= 2 THEN y - 1 ELSE y
        era == yy \div 400
        yoe == yy - (era * 400)
        mp == IF m > 2 THEN m - 3 ELSE m + 9
        doy == (((153 * mp) + 2) \div 5) + (d - 1)
        doe == (((yoe * 365) + (yoe \div 4)) - (yoe \div 100)) + doy
    IN  ((era * 146097) + doe) - 719468

civil_from_days(z0) ==
    LET z == z0 + 719468
        era == z \div 146097
        doe == z - (era * 146097)
        yoe == (((doe - (doe \div 1460)) + (doe \div 36524)) - (doe \div 146096)) \div 365
        doy == doe - (((365 * yoe) + (yoe \div 4)) - (yoe \div 100))
        mp == ((5 * doy) + 2) \div 153
        d == (doy - (((153 * mp) + 2) \div 5)) + 1
        m == IF mp < 10 THEN mp + 3 ELSE mp - 9
        y == (yoe + (era * 400)) + (IF m <= 2 THEN 1 ELSE 0)
    IN  <<y, m, d>>

\* Duration normalised to 0 <= s < 86400, 0 <= n < 10^9
DurNorm(d, s, n) ==
    LET s1 == s + (n \div NanosPerSecond)
    IN  [d |-> d + (s1 \div SecondsPerDay), s |-> s1 % SecondsPerDay,
         n |-> n % NanosPerSecond]

Duration_add(a, b) == DurNorm(a.d + b.d, a.s + b.s, a.n + b.n)

Duration_sub(a, b) == DurNorm(a.d - b.d, a.s - b.s, a.n - b.n)

\* hifitime::Epoch::from_gregorian_utc on a date the engine accepts
hifitime_from_gregorian_utc(y, m, d, hh, mm, ss, nanos) ==
    [dur |-> [d |-> days_from_civil(y, m, d),
              s |-> (((hh * 60) + mm) * 60) + ss,
              n |-> WToInt(nanos)],
     time_scale |-> "UTC"]

\* hifitime::Epoch::to_gregorian_utc
hifitime_to_gregorian_utc(h) ==
    LET c == civil_from_days(h.dur.d)
    IN  <<c[1], c[2], c[3], h.dur.s \div 3600, (h.dur.s \div 60) % 60,
          h.dur.s % 60, h.dur.n>>

\* hifitime::Epoch::to_duration and hifitime::Epoch::set
hifitime_to_duration(h) == h.dur

hifitime_set(h, dur) == [dur |-> dur, time_scale |-> h.time_scale]

(***************************************************************************)
(* struct Epoch { epoch: hifitime::Epoch, flag: EpochFlag }                *)
(***************************************************************************)
Epoch_new(epoch, flag) == [epoch |-> epoch, flag |-> flag]

with_flag(e, flag) == [epoch |-> e.epoch, flag |-> flag]

with_timescale(e, ts) ==
    [epoch |-> [dur |-> e.epoch.dur, time_scale |-> ts], flag |-> e.flag]

timescale(e) == e.epoch.time_scale

to_gregorian_utc(e) == hifitime_to_gregorian_utc(e.epoch)

\* The engine's constructor panics on a date it does not accept.
from_gregorian_utc(y, m, d, hh, mm, ss, nanos) ==
    IF is_gregorian_valid(y, m, d, hh, mm, ss, nanos)
    THEN [panic |-> FALSE,
          e |-> [epoch |-> hifitime_from_gregorian_utc(y, m, d, hh, mm, ss, nanos),
                 flag |-> EpochFlag_default]]
    ELSE [panic |-> TRUE,
          e |-> [epoch |-> hifitime_from_gregorian_utc(1970, 1, 1, 0, 0, 0, <<0, 0>>),
                 flag |-> EpochFlag_default]]

(***************************************************************************)
(* Epoch - Duration, Epoch + Duration and the in-place variants            *)
(***************************************************************************)
\* the subtraction rebuilt with the default flag
Epoch_sub_default_flag(e, duration) ==
    [epoch |-> hifitime_set(e.epoch,
                            Duration_sub(hifitime_to_duration(e.epoch), duration)),
     flag |-> EpochFlag_default]

Epoch_sub(e, duration) ==
    [epoch |-> hifitime_set(e.epoch,
                            Duration_sub(hifitime_to_duration(e.epoch), duration)),
     flag |-> e.flag]

Epoch_sub_assign(e, duration) ==
    [epoch |-> hifitime_set(e.epoch,
                            Duration_sub(hifitime_to_duration(e.epoch), duration)),
     flag |-> e.flag]

Epoch_add(e, duration) ==
    [epoch |-> hifitime_set(e.epoch,
                            Duration_add(hifitime_to_duration(e.epoch), duration)),
     flag |-> e.flag]

Epoch_add_assign(e, duration) ==
    [epoch |-> hifitime_set(e.epoch,
                            Duration_add(hifitime_to_duration(e.epoch), duration)),
     flag |-> e.flag]

(***************************************************************************)
(* Formatting: {:0w}, {:>w} and {:w} of an integer                         *)
(***************************************************************************)
RECURSIVE NatDigits(_)
NatDigits(n) ==
    IF n < 10 THEN <<DigitChar(n)>>
    ELSE Append(NatDigits(n \div 10), DigitChar(n % 10))

RECURSIVE Rep(_, _)
Rep(c, k) == IF k <= 0 THEN <<>> ELSE <<c>> \o Rep(c, k - 1)

\* {:0w}: zeros between the sign and the digits
FmtZero(n, w) ==
    LET sign == IF n < 0 THEN <<"-">> ELSE <<>>
        digs == NatDigits(IF n < 0 THEN 0 - n ELSE n)
    IN  sign \o Rep("0", (w - Len(sign)) - Len(digs)) \o digs

\* {:>w} and, for a number, {:w}: spaces on the left
FmtRight(n, w) ==
    LET sign == IF n < 0 THEN <<"-">> ELSE <<>>
        digs == NatDigits(IF n < 0 THEN 0 - n ELSE n)
    IN  Rep(" ", (w - Len(sign)) - Len(digs)) \o sign \o digs

\* Display with the seconds zero-padded, "{:02}", instead of right-aligned
Display_fmt_padded(e) ==
    LET g == to_gregorian_utc(e)
    IN  FmtZero(g[1], 4) \o <<" ">> \o FmtZero(g[2], 2) \o <<" ">>
        \o FmtZero(g[3], 2) \o <<" ">> \o FmtZero(g[4], 2) \o <<" ">>
        \o FmtZero(g[5], 2) \o <<" ">> \o FmtZero(g[6], 2) \o <<".">>
        \o FmtZero(g[7] \div 100, 7) \o <<" ", " ">> \o EpochFlag_fmt(e.flag)

\* impl Display: "{:04} {:02} {:02} {:02} {:02} {:>2}.{:07}  {}"
Display_fmt(e) ==
    LET g == to_gregorian_utc(e)
    IN  FmtZero(g[1], 4) \o <<" ">> \o FmtZero(g[2], 2) \o <<" ">>
        \o FmtZero(g[3], 2) \o <<" ">> \o FmtZero(g[4], 2) \o <<" ">>
        \o FmtZero(g[5], 2) \o <<" ">> \o FmtRight(g[6], 2) \o <<".">>
        \o FmtZero(g[7] \div 100, 7) \o <<" ", " ">> \o EpochFlag_fmt(e.flag)

\* impl Octal: "{:02} {:>2} {:>2} {:>2} {:>2} {:>2}.{:07}  {}"
Octal_fmt(e) ==
    LET g == to_gregorian_utc(e)
    IN  FmtZero(g[1] - 2000, 2) \o <<" ">> \o FmtRight(g[2], 2) \o <<" ">>
        \o FmtRight(g[3], 2) \o <<" ">> \o FmtRight(g[4], 2) \o <<" ">>
        \o FmtRight(g[5], 2) \o <<" ">> \o FmtRight(g[6], 2) \o <<".">>
        \o FmtZero(g[7] \div 100, 7) \o <<" ", " ">> \o EpochFlag_fmt(e.flag)

\* impl LowerExp: "{:04} {:>2} {:>2} {:>2} {:>2} {:>2}.{:1}"
LowerExp_fmt(e) ==
    LET g == to_gregorian_utc(e)
    IN  FmtZero(g[1], 4) \o <<" ">> \o FmtRight(g[2], 2) \o <<" ">>
        \o FmtRight(g[3], 2) \o <<" ">> \o FmtRight(g[4], 2) \o <<" ">>
        \o FmtRight(g[5], 2) \o <<" ">> \o FmtRight(g[6], 2) \o <<".">>
        \o FmtRight(g[7], 1)

\* impl UpperExp: "{:04} {:>2} {:>2} {:>2} {:>2} {:>2}"
UpperExp_fmt(e) ==
    LET g == to_gregorian_utc(e)
    IN  FmtZero(g[1], 4) \o <<" ">> \o FmtRight(g[2], 2) \o <<" ">>
        \o FmtRight(g[3], 2) \o <<" ">> \o FmtRight(g[4], 2) \o <<" ">>
        \o FmtRight(g[5], 2) \o <<" ">> \o FmtRight(g[6], 2)

(***************************************************************************)
(* impl FromStr for Epoch                                                  *)
(***************************************************************************)
NavScale == 100000000
ObsScale == 100

WAdd(a, b) == WNorm(a[1] + b[1], a[2] + b[2])

\* u32 * k for k <= 10^8: whether the product leaves the u32 range, and the
\* product modulo 2^32
u32_mul(w, k) ==
    LET a == WMulSmall(w, k \div 10000)
        b == WMulSmall(U32Wrap(a), 10000)
        c == WMulSmall(w, k % 10000)
        t == WAdd(U32Wrap(b), c)
    IN  [overflow |-> ~U32Fits(a) \/ ~U32Fits(b) \/ ~U32Fits(t),
         val |-> U32Wrap(t)]

NoEpoch == from_gregorian_utc(1970, 1, 1, 0, 0, 0, <<0, 0>>).e
NoCall == [called |-> FALSE, args |-> <<0, 0, 0, 0, 0, 0, <<0, 0>>>>]

ResErr(kind) == [kind |-> "Err", err |-> kind, e |-> NoEpoch, ctor |-> NoCall]
ResAbort(why, call) == [kind |-> "Abort", err |-> why, e |-> NoEpoch, ctor |-> call]
ResOk(e, call) == [kind |-> "Ok", err |-> "none", e |-> e, ctor |-> call]

\* the token count checked from below only
token_count_at_least(items) == Len(items) >= 6

\* items.len() != 6 and items.len() != 7 is a FormatError
token_count_ok(items) == Len(items) = 6 \/ Len(items) = 7

\* the two-digit year taken as a year of the 1900s
normalize_year_1900(y) == IF y < 100 THEN y + 1900 ELSE y

\* if y < 100 { y += 2000 }
normalize_year(y) == IF y < 100 THEN y + 2000 ELSE y

\* let is_nav = items[5].trim().len() < 7
is_nav(tok) == Len(trim(tok)) < 7

\* if is_nav { ns *= 100_000_000 } else { ns *= 100 }
scale_nanos(ns, nav) == u32_mul(ns, IF nav THEN NavScale ELSE ObsScale)

\* a flag the flag parser rejects fails the whole parse
finish_with_flag_strict(e, items, call) ==
    IF Len(items) = 7
    THEN LET f == EpochFlag_from_str(trim(items[7]))
         IN  IF f.ok THEN ResOk(with_flag(e, f.val), call) ELSE ResErr("FormatError")
    ELSE ResOk(e, call)

\* if items.len() == 7 { if let Ok(flag) = EpochFlag::from_str(..) { e = e.with_flag(flag) } }
\* Ok(e)
finish_with_flag(e, items, call) ==
    IF Len(items) = 7
    THEN LET f == EpochFlag_from_str(trim(items[7]))
         IN  IF f.ok THEN ResOk(with_flag(e, f.val), call) ELSE ResOk(e, call)
    ELSE ResOk(e, call)

\* the month looked at before the year
first_field_error_month_first(y, m, d, hh, mm) ==
    IF ~m.ok THEN "MonthError"
    ELSE IF ~y.ok THEN "YearError"
    ELSE IF ~d.ok THEN "DayError"
    ELSE IF ~hh.ok THEN "HoursError"
    ELSE IF ~mm.ok THEN "MinutesError"
    ELSE "none"

\* the else arms of the nested if-let chain, outermost first
first_field_error(y, m, d, hh, mm) ==
    IF ~y.ok THEN "YearError"
    ELSE IF ~m.ok THEN "MonthError"
    ELSE IF ~d.ok THEN "DayError"
    ELSE IF ~hh.ok THEN "HoursError"
    ELSE IF ~mm.ok THEN "MinutesError"
    ELSE "none"

\* the branch for a seconds token with a decimal point
from_str_fractional(items, y, m, d, hh, mm, dot, checks) ==
    LET tok == items[6]
        nav == is_nav(tok)
        ss == u8_from_str_radix(trim(SubSeq(tok, 1, dot - 1)))
        ns == u32_from_str_radix(trim(SubSeq(tok, dot + 1, Len(tok))))
    IN  IF ~ss.ok THEN ResErr("SecondsError")
        ELSE IF ~ns.ok THEN ResErr("NanosecsError")
        ELSE LET sc == scale_nanos(ns.val, nav)
                 call == [called |-> TRUE,
                          args |-> <<y, m, d, hh, mm, ss.val, sc.val>>]
                 g == from_gregorian_utc(y, m, d, hh, mm, ss.val, sc.val)
             IN  IF sc.overflow /\ checks THEN ResAbort("overflow", NoCall)
                 ELSE IF g.panic THEN ResAbort("calendar", call)
                 ELSE finish_with_flag(g.e, items, call)

\* the branch for a seconds token without a decimal point
from_str_integral(items, y, m, d, hh, mm) ==
    LET ss == u8_from_str_radix(trim(items[6]))
        call == [called |-> TRUE, args |-> <<y, m, d, hh, mm, ss.val, <<0, 0>>>>]
        g == from_gregorian_utc(y, m, d, hh, mm, ss.val, <<0, 0>>)
    IN  IF ~ss.ok THEN ResErr("SecondsError")
        ELSE IF g.panic THEN ResAbort("calendar", call)
        ELSE ResOk(g.e, call)

\* checks: the build traps arithmetic overflow (debug) instead of wrapping
from_str(s, checks) ==
    LET items == split_ascii_whitespace(s)
    IN  IF ~token_count_ok(items) THEN ResErr("FormatError")
        ELSE LET y == i32_from_str_radix(items[1])
                 m == u8_from_str_radix(items[2])
                 d == u8_from_str_radix(items[3])
                 hh == u8_from_str_radix(items[4])
                 mm == u8_from_str_radix(items[5])
                 dot == find_dot(items[6])
                 fe == first_field_error(y, m, d, hh, mm)
             IN  IF fe # "none" THEN ResErr(fe)
                 ELSE IF dot # 0
                      THEN from_str_fractional(items, normalize_year(y.val), m.val,
                                               d.val, hh.val, mm.val, dot, checks)
                      ELSE from_str_integral(items, normalize_year(y.val), m.val,
                                             d.val, hh.val, mm.val)

\* #[derive(PartialEq, Eq)] on Epoch
Epoch_eq(a, b) == a.epoch = b.epoch /\ a.flag = b.flag

(***************************************************************************)
(* Input lines.  The observation layouts are those of the lines of         *)
(* test_obs_v2 and test_obs_v3; the other lines are built token by token.  *)
(***************************************************************************)
MaxTokens == 8
MaxPad == 2
DurSteps == 2

Sp(k) == Rep(" ", k)

RECURSIVE JoinTokens(_, _)
JoinTokens(toks, sep) ==
    IF toks = <<>> THEN <<>>
    ELSE IF Len(toks) = 1 THEN toks[1]
    ELSE toks[1] \o sep \o JoinTokens(Tail(toks), sep)

\* " 2022 01 09 00 13 30.0000000  0"
ObsV3Line(lead, y, m, d, hh, mi, ss, frac, flagtok) ==
    Sp(lead) \o FmtZero(y, 4) \o <<" ">> \o FmtZero(m, 2) \o <<" ">>
    \o FmtZero(d, 2) \o <<" ">> \o FmtZero(hh, 2) \o <<" ">> \o FmtZero(mi, 2)
    \o <<" ">> \o FmtRight(ss, 2) \o <<".">> \o FmtZero(frac, 7) \o <<" ", " ">>
    \o flagtok

\* " 21  1  1  0  7 30.0000000  0"
ObsV2Line(lead, yy, m, d, hh, mi, ss, frac, flagtok) ==
    Sp(lead) \o FmtZero(yy, 2) \o <<" ">> \o FmtRight(m, 2) \o <<" ">>
    \o FmtRight(d, 2) \o <<" ">> \o FmtRight(hh, 2) \o <<" ">> \o FmtRight(mi, 2)
    \o <<" ">> \o FmtRight(ss, 2) \o <<".">> \o FmtZero(frac, 7) \o <<" ", " ">>
    \o flagtok

ObsYears4 == {21, 1999, 2022}
ObsYears2 == {0, 21, 99}
ObsDateTimes == {<<1, 9, 0, 0>>, <<12, 31, 23, 7>>}
ObsSeconds == {0, 39}
ObsFracs == {0, 1234000, 1234567}
ObsFlagToks == {<<"0">>, <<"1">>, <<"2">>, <<"3">>, <<"4">>, <<"5">>, <<"6">>, <<"7">>}

ObsV3Lines ==
    {ObsV3Line(lead, y, dt[1], dt[2], dt[3], dt[4], ss, fr, f) :
        lead \in {0, 1}, y \in ObsYears4, dt \in ObsDateTimes, ss \in ObsSeconds,
        fr \in ObsFracs, f \in ObsFlagToks}

ObsV2Lines ==
    {ObsV2Line(lead, y, dt[1], dt[2], dt[3], dt[4], ss, fr, f) :
        lead \in {0, 1}, y \in ObsYears2, dt \in ObsDateTimes, ss \in ObsSeconds,
        fr \in ObsFracs, f \in ObsFlagToks}

\* one well-formed and some malformed tokens per field
YearToks == {<<"2", "0", "2", "2">>,
     <<"x">>,
     <<"9", "9", "9", "9", "9", "9", "9", "9", "9", "9", "9">>}
MonthToks == {<<"1">>,
     <<"2", "5", "6">>}
DayToks == {<<"9">>,
     <<"d">>}
HourToks == {<<"0">>,
     <<"-", "1">>}
MinuteToks == {<<"7">>,
     <<"1", ".", "5">>}
SecondToks == {<<"3", "0">>,
     <<"3", "0", ".", "5">>,
     <<"s">>,
     <<"s", ".", "5">>,
     <<"3", "0", ".", "x">>,
     <<"2", "5", "6", ".", "5">>,
     <<".", "5">>,
     <<"3", "0", ".">>,
     <<"0", ".", "9", "9", "9", "9", "9", "9", "9", "9", "9", "9", "9">>}
OptFlagToks == {<<>>, <<<<"1">>>>}

FieldLines ==
    {JoinTokens(<<y, m, d, hh, mi, ss>> \o f, <<" ">>) :
        y \in YearToks, m \in MonthToks, d \in DayToks, hh \in HourToks,
        mi \in MinuteToks, ss \in SecondToks, f \in OptFlagToks}

\* lines of 0..MaxTokens tokens
GoodTokens == <<<<"2", "0", "2", "2">>, <<"0", "1">>, <<"0", "9">>, <<"0", "0">>, <<"1", "3">>, <<"3", "0", ".", "0", "0", "0", "0", "0", "0", "0">>, <<"0">>>>

TokAt(i, bad) == IF bad THEN <<"x">> ELSE IF i <= 7 THEN GoodTokens[i] ELSE <<"4">>

Margins == {<<<<>>, <<>>>>, <<<<" ">>, <<"\n">>>>, <<<<"\t">>, <<" ">>>>}
Separators == {Sp(k) : k \in 1..MaxPad} \cup {<<"\t">>}

CountLines ==
    {mg[1] \o JoinTokens([i \in 1..n |-> TokAt(i, bad)], sep) \o mg[2] :
        n \in 0..MaxTokens, bad \in BOOLEAN, mg \in Margins, sep \in Separators}

\* the layouts of the seconds field, under several years and flags
LayoutYearToks == {<<"2", "0">>,
     <<"9", "9">>,
     <<"1", "0", "0">>,
     <<"2", "0", "2", "0">>,
     <<"-", "5">>,
     <<"0">>}
LayoutSecondToks == {<<"0", ".", "0">>,
     <<"0", ".", "1">>,
     <<"0", ".", "1", "0">>,
     <<"0", ".", "1", "2">>,
     <<"0", ".", "4", "3">>,
     <<"9", ".", "9", "9", "9", "9">>,
     <<"1", "0", ".", "1", "2", "3">>,
     <<"0", ".", "1", "2", "3", "4", "5", "6">>,
     <<"0", ".", "1", "0", "0", "0", "0", "0", "0">>,
     <<"0", ".", "1", "2", "3", "4", "0", "0", "0">>,
     <<"0", ".", "1", "2", "3", "4", "5", "6", "7">>,
     <<"0", ".", "1", "2", "3", "4", "5", "6", "7", "8">>,
     <<"0", ".", "4", "2", "9", "4", "9", "6", "7", "3">>,
     <<"0", "0">>,
     <<"3", "0">>,
     <<"5", "9", ".", "9">>}
LayoutFlagToks == {<<>>, <<<<"1">>>>, <<<<"7">>>>, <<<<"x">>>>}

LayoutLines ==
    {JoinTokens(<<y, <<"1", "2">>, <<"3", "1">>, <<"2", "3">>, <<"4", "5">>, ss>> \o f,
                <<" ">>) :
        y \in LayoutYearToks, ss \in LayoutSecondToks, f \in LayoutFlagToks}

\* every flag token after a seconds field with and without a decimal point
AllFlagToks == ObsFlagToks \cup {<<"1", "0">>, <<"x">>}

FlagLines ==
    {JoinTokens(<<<<"2", "0", "2", "1">>, <<"0", "1">>, <<"0", "1">>, <<"0", "9">>,
                  <<"4", "5">>, ss, f>>, <<" ">>) :
        ss \in {<<"0", "0">>, <<"0", "4">>, <<"4", ".", "5">>}, f \in AllFlagToks}

\* dates and times the calendar engine does not accept
BadDateLines ==
    {JoinTokens(<<<<"2", "0", "2", "2">>, md[1], md[2], hm[1], hm[2], ss>>, <<" ">>) :
        md \in {<<<<"1", "3">>, <<"0", "1">>>>, <<<<"0", "2">>, <<"3", "0">>>>,
                <<<<"0">>, <<"9">>>>, <<<<"0", "2">>, <<"2", "8">>>>},
        hm \in {<<<<"0", "0">>, <<"0", "0">>>>, <<<<"2", "5">>, <<"0", "0">>>>,
                <<<<"0", "0">>, <<"6", "1">>>>},
        ss \in {<<"0", "0">>, <<"6", "1">>, <<"6", "1", ".", "0">>}}

\* the lines the tests of the module parse
TestLines ==
    {<<" ", "2", "0", "2", "2", " ", "0", "1", " ", "0", "9", " ", "0", "0", " ", "0", "0", " ", " ", "0", ".", "0", "0", "0", "0", "0", "0", "0", " ", " ", "0">>,
     <<" ", "2", "0", "2", "2", " ", "0", "1", " ", "0", "9", " ", "0", "0", " ", "0", "0", " ", " ", "0", ".", "1", "2", "3", "4", "0", "0", "0", " ", " ", "0">>,
     <<" ", "2", "0", "2", "2", " ", "0", "1", " ", "0", "9", " ", "0", "0", " ", "0", "0", " ", " ", "8", ".", "7", "6", "5", "4", "3", "2", "1", " ", " ", "0">>,
     <<" ", "2", "0", "2", "2", " ", "0", "1", " ", "0", "9", " ", "0", "0", " ", "1", "3", " ", "3", "0", ".", "0", "0", "0", "0", "0", "0", "0", " ", " ", "0">>,
     <<" ", "2", "0", "2", "2", " ", "0", "3", " ", "0", "4", " ", "0", "0", " ", "0", "2", " ", "3", "0", ".", "0", "0", "0", "0", "0", "0", "0", " ", " ", "0">>,
     <<" ", "2", "0", "2", "2", " ", "0", "3", " ", "0", "4", " ", "0", "0", " ", "5", "2", " ", "3", "0", ".", "0", "0", "0", "0", "0", "0", "0", " ", " ", "0">>,
     <<" ", "2", "1", " ", " ", "1", " ", " ", "1", " ", " ", "0", " ", " ", "0", " ", " ", "0", ".", "0", "0", "0", "0", "0", "0", "0", " ", " ", "0">>,
     <<" ", "2", "1", " ", " ", "1", " ", " ", "1", " ", " ", "0", " ", " ", "7", " ", "3", "0", ".", "0", "0", "0", "0", "0", "0", "0", " ", " ", "0">>,
     <<" ", "2", "1", " ", " ", "1", " ", " ", "1", " ", " ", "0", " ", " ", "7", " ", "3", "9", ".", "1", "2", "3", "4", "5", "6", "7", " ", " ", "0">>,
     <<" ", "2", "1", " ", "1", "2", " ", "2", "1", " ", " ", "0", " ", " ", "0", " ", " ", "0", ".", "0", "0", "0", "0", "0", "0", "0", " ", " ", "0">>,
     <<" ", "2", "1", " ", "1", "2", " ", "2", "1", " ", " ", "0", " ", " ", "0", " ", "3", "0", ".", "0", "0", "0", "0", "0", "0", "0", " ", " ", "0">>,
     <<" ", "2", "1", " ", "1", "2", " ", "2", "1", " ", " ", "0", " ", " ", "0", " ", "3", "0", ".", "0", "0", "0", "0", "0", "0", "0", " ", " ", "1">>,
     <<" ", "2", "1", " ", "1", "2", " ", "2", "1", " ", " ", "0", " ", " ", "0", " ", "3", "0", ".", "0", "0", "0", "0", "0", "0", "0", " ", " ", "2">>,
     <<" ", "2", "1", " ", "1", "2", " ", "2", "1", " ", " ", "0", " ", " ", "0", " ", "3", "0", ".", "0", "0", "0", "0", "0", "0", "0", " ", " ", "3">>,
     <<" ", "2", "1", " ", "1", "2", " ", "2", "1", " ", " ", "0", " ", " ", "0", " ", "3", "0", ".", "0", "0", "0", "0", "0", "0", "0", " ", " ", "4">>,
     <<" ", "2", "1", " ", "1", "2", " ", "2", "1", " ", " ", "0", " ", " ", "0", " ", "3", "0", ".", "0", "0", "0", "0", "0", "0", "0", " ", " ", "5">>,
     <<" ", "2", "1", " ", "1", "2", " ", "2", "1", " ", " ", "0", " ", " ", "0", " ", "3", "0", ".", "0", "0", "0", "0", "0", "0", "0", " ", " ", "6">>,
     <<"2", "0", " ", "1", "2", " ", "3", "1", " ", "2", "3", " ", "4", "5", " ", " ", "0", ".", "0">>,
     <<"2", "0", " ", "1", "2", " ", "3", "1", " ", "2", "3", " ", "4", "5", " ", " ", "0", ".", "1">>,
     <<"2", "0", "2", "0", " ", "0", "6", " ", "2", "5", " ", "0", "0", " ", "0", "0", " ", "0", "0">>,
     <<"2", "0", "2", "0", " ", "0", "6", " ", "2", "5", " ", "0", "9", " ", "4", "9", " ", "0", "4">>,
     <<"2", "0", "2", "1", " ", "0", "1", " ", "0", "1", " ", "0", "0", " ", "0", "0", " ", "0", "0", " ">>,
     <<"2", "0", "2", "1", " ", "0", "1", " ", "0", "1", " ", "0", "9", " ", "4", "5", " ", "0", "0", " ">>,
     <<"2", "0", "2", "2", " ", "0", "1", " ", "0", "9", " ", "0", "0", " ", "0", "0", " ", " ", "0", ".", "1", "0", "0", "0", "0", "0", "0", " ", " ", "0">>,
     <<"2", "1", " ", " ", "1", " ", " ", "1", " ", "1", "6", " ", "1", "5", " ", " ", "0", ".", "0">>}

Lines == ObsV3Lines \cup ObsV2Lines \cup FieldLines \cup CountLines
         \cup LayoutLines \cup FlagLines \cup BadDateLines \cup TestLines

\* Epochs built directly from calendar fields
BuildDates == {<<2020, 12, 31, 23, 59, 59>>, <<2022, 1, 9, 0, 0, 0>>}
BuildNanos == {0, 100000000, 123456789, 999999999}
BuildFlags == {"Ok", "CycleSlip"}

Durations ==
    {DurNorm(0, 0, k * 600000000) : k \in (0 - DurSteps)..DurSteps}
    \cup {DurNorm(k, k * 86399, 0) : k \in (0 - DurSteps)..DurSteps}

(***************************************************************************)
(* The state machine: one value is parsed or built, then formatted or      *)
(* moved by a Duration and moved back.                                     *)
(***************************************************************************)
NoRes == [kind |-> "None", err |-> "none", e |-> NoEpoch, ctor |-> NoCall]

Init ==
    /\ overflow_checks \in BOOLEAN
    /\ pc = "idle"
    /\ line = <<>>
    /\ res = NoRes
    /\ cur = NoEpoch
    /\ out = <<>>
    /\ fmt = "none"
    /\ orig = NoEpoch
    /\ hist = <<>>

\* Epoch::from_str(line)
FromStr ==
    \E l \in Lines :
        LET r == from_str(l, overflow_checks)
        IN  /\ pc = "idle"
            /\ line' = l
            /\ res' = r
            /\ cur' = r.e
            /\ pc' = IF r.kind = "Ok" THEN "parsed" ELSE "failed"
            /\ UNCHANGED <<overflow_checks, out, fmt, orig, hist>>

\* Epoch::from_gregorian_utc(...).with_flag(flag)
FromGregorianUtc ==
    \E dt \in BuildDates, n \in BuildNanos, f \in BuildFlags :
        LET g == from_gregorian_utc(dt[1], dt[2], dt[3], dt[4], dt[5], dt[6], WOfInt(n))
        IN  /\ pc = "idle"
            /\ ~g.panic
            /\ cur' = with_flag(g.e, f)
            /\ pc' = "built"
            /\ UNCHANGED <<overflow_checks, line, res, out, fmt, orig, hist>>

\* format!("{}", cur)
FmtDisplay ==
    /\ pc \in {"parsed", "built"}
    /\ out' = Display_fmt(cur)
    /\ fmt' = "Display"
    /\ pc' = "shown"
    /\ UNCHANGED <<overflow_checks, line, res, cur, orig, hist>>

\* format!("{:o}", cur)
FmtOctal ==
    /\ pc \in {"parsed", "built"}
    /\ out' = Octal_fmt(cur)
    /\ fmt' = "Octal"
    /\ pc' = "shown"
    /\ UNCHANGED <<overflow_checks, line, res, cur, orig, hist>>

\* format!("{:e}", cur)
FmtLowerExp ==
    /\ pc \in {"parsed", "built"}
    /\ out' = LowerExp_fmt(cur)
    /\ fmt' = "LowerExp"
    /\ pc' = "shown"
    /\ UNCHANGED <<overflow_checks, line, res, cur, orig, hist>>

\* format!("{:E}", cur)
FmtUpperExp ==
    /\ pc \in {"parsed", "built"}
    /\ out' = UpperExp_fmt(cur)
    /\ fmt' = "UpperExp"
    /\ pc' = "shown"
    /\ UNCHANGED <<overflow_checks, line, res, cur, orig, hist>>

\* the first operation takes any Duration, the second one the same Duration
MoveEnabled(d) ==
    /\ pc \in {"built", "moved"}
    /\ Len(hist) < 2
    /\ hist # <<>> => d = hist[1][2]

\* cur = cur + d
Add ==
    \E d \in Durations :
        /\ MoveEnabled(d)
        /\ cur' = Epoch_add(cur, d)
        /\ orig' = IF hist = <<>> THEN cur ELSE orig
        /\ hist' = Append(hist, <<"add", d>>)
        /\ pc' = "moved"
        /\ UNCHANGED <<overflow_checks, line, res, out, fmt>>

\* cur = cur - d
Sub ==
    \E d \in Durations :
        /\ MoveEnabled(d)
        /\ cur' = Epoch_sub(cur, d)
        /\ orig' = IF hist = <<>> THEN cur ELSE orig
        /\ hist' = Append(hist, <<"sub", d>>)
        /\ pc' = "moved"
        /\ UNCHANGED <<overflow_checks, line, res, out, fmt>>

\* cur += d
AddAssign ==
    \E d \in Durations :
        /\ MoveEnabled(d)
        /\ cur' = Epoch_add_assign(cur, d)
        /\ orig' = IF hist = <<>> THEN cur ELSE orig
        /\ hist' = Append(hist, <<"add_assign", d>>)
        /\ pc' = "moved"
        /\ UNCHANGED <<overflow_checks, line, res, out, fmt>>

\* cur -= d
SubAssign ==
    \E d \in Durations :
        /\ MoveEnabled(d)
        /\ cur' = Epoch_sub_assign(cur, d)
        /\ orig' = IF hist = <<>> THEN cur ELSE orig
        /\ hist' = Append(hist, <<"sub_assign", d>>)
        /\ pc' = "moved"
        /\ UNCHANGED <<overflow_checks, line, res, out, fmt>>

Next ==
    \/ FromStr
    \/ FromGregorianUtc
    \/ FmtDisplay
    \/ FmtOctal
    \/ FmtLowerExp
    \/ FmtUpperExp
    \/ Add
    \/ Sub
    \/ AddAssign
    \/ SubAssign

Spec == Init /\ [][Next]_vars

(***************************************************************************)
(* Vocabulary of the properties                                            *)
(***************************************************************************)
Items == split_ascii_whitespace(line)
Parsed == res.kind # "None"
Pow8 == 10000 * 10000

\* the number of maximal runs of characters that are not ASCII whitespace
TokenRuns(l) ==
    Cardinality({i \in 1..Len(l) :
        /\ ~IsAsciiWhitespace(l[i])
        /\ (i = 1 \/ IsAsciiWhitespace(l[i - 1]))})

FirstFiveParse ==
    /\ Len(Items) \in {6, 7}
    /\ i32_from_str_radix(Items[1]).ok
    /\ \A i \in 2..5 : u8_from_str_radix(Items[i]).ok

SecHasDot == find_dot(Items[6]) # 0
SecIntPart == SubSeq(Items[6], 1, find_dot(Items[6]) - 1)
SecFracPart == SubSeq(Items[6], find_dot(Items[6]) + 1, Len(Items[6]))

\* w * k as a number, for w * k below 2^47
ExactProduct(w, k) ==
    WAdd(WMulSmall(WMulSmall(w, k \div 10000), 10000), WMulSmall(w, k % 10000))

FlagOfDigit(t) ==
    CASE t = <<"0">> -> "Ok"
      [] t = <<"1">> -> "PowerFailure"
      [] t = <<"2">> -> "AntennaBeingMoved"
      [] t = <<"3">> -> "NewSiteOccupation"
      [] t = <<"4">> -> "HeaderInformationFollows"
      [] t = <<"5">> -> "ExternalEvent"
      [] t = <<"6">> -> "CycleSlip"

FlagDigits == {<<"0">>, <<"1">>, <<"2">>, <<"3">>, <<"4">>, <<"5">>, <<"6">>}

\* a two-column field, right-aligned, without a leading zero
RightAligned2(a, b) ==
    /\ b \in DigitChars
    /\ a = " " \/ a \in (DigitChars \ {"0"})

\* "YYYY MM DD HH MM SS.NNNNNNN  F": the four-digit-year observation layout
IsObsV3Body(b) ==
    /\ Len(b) = 30
    /\ \A i \in {1, 2, 3, 4, 6, 7, 9, 10, 12, 13, 15, 16} : b[i] \in DigitChars
    /\ \A i \in {5, 8, 11, 14, 17, 28, 29} : b[i] = " "
    /\ RightAligned2(b[18], b[19])
    /\ b[20] = "."
    /\ \A i \in 21..27 : b[i] \in DigitChars
    /\ ~IsAsciiWhitespace(b[30])

\* "YY MM DD HH MM SS.NNNNNNN  F": the two-digit-year observation layout
IsObsV2Body(b) ==
    /\ Len(b) = 28
    /\ b[1] \in DigitChars /\ b[2] \in DigitChars
    /\ \A i \in {3, 6, 9, 12, 15, 26, 27} : b[i] = " "
    /\ \A i \in {4, 7, 10, 13, 16} : RightAligned2(b[i], b[i + 1])
    /\ b[18] = "."
    /\ \A i \in 19..25 : b[i] \in DigitChars
    /\ ~IsAsciiWhitespace(b[28])

\* the line without its leading space
Body(l) == IF l # <<>> /\ Head(l) = " " THEN Tail(l) ELSE l

(***************************************************************************)
(* C1.  On a line whose first five fields parse and whose seconds token    *)
(* has a decimal point with both parts parsing, from_str hands the         *)
(* calendar constructor nanoseconds = fraction * 100,000,000 when the      *)
(* token is shorter than 7 characters and fraction * 100 otherwise.        *)
(***************************************************************************)
C1_NanosScaled ==
    (/\ Parsed
     /\ FirstFiveParse
     /\ SecHasDot
     /\ u8_from_str_radix(SecIntPart).ok
     /\ u32_from_str_radix(SecFracPart).ok)
    => /\ res.ctor.called
       /\ res.ctor.args[7] =
             ExactProduct(u32_from_str_radix(SecFracPart).val,
                          IF Len(Items[6]) < 7 THEN Pow8 ELSE 100)

(***************************************************************************)
(* C2.  Every successfully parsed line of 6 tokens has flag Ok, and every  *)
(* successfully parsed line of 7 tokens whose seventh token is one of      *)
(* "0".."6" has the corresponding flag, with or without a decimal point in *)
(* the seconds field.                                                      *)
(***************************************************************************)
C2_FlagFromToken ==
    res.kind = "Ok"
    => /\ Len(Items) = 6 => res.e.flag = "Ok"
       /\ (Len(Items) = 7 /\ Items[7] \in FlagDigits)
             => res.e.flag = FlagOfDigit(Items[7])

(***************************************************************************)
(* C3 as stated.  Every Epoch parsed from a 7-token observation-format     *)
(* line renders, with Display for the four-digit-year layout and Octal for *)
(* the two-digit-year layout, as the line without its leading space.       *)
(***************************************************************************)
C3_RoundTrip ==
    (pc = "shown" /\ res.kind = "Ok")
    => /\ (fmt = "Display" /\ IsObsV3Body(Body(line))) => out = Body(line)
       /\ (fmt = "Octal" /\ IsObsV2Body(Body(line))) => out = Body(line)

(***************************************************************************)
(* C3 amended.  The round trip holds for the observation-format lines      *)
(* whose flag token is one of "0".."6" and, in the four-digit-year layout, *)
(* whose year is at least 0100.                                            *)
(***************************************************************************)
C3_RoundTripRecognized ==
    (pc = "shown" /\ res.kind = "Ok" /\ Len(Items) = 7 /\ Items[7] \in FlagDigits)
    => /\ (/\ fmt = "Display"
           /\ IsObsV3Body(Body(line))
           /\ i32_from_str_radix(Items[1]).val >= 100) => out = Body(line)
       /\ (fmt = "Octal" /\ IsObsV2Body(Body(line))) => out = Body(line)

C3_Witness ==
    /\ pc = "shown"
    /\ res.kind = "Ok"
    /\ fmt = "Display"
    /\ IsObsV3Body(Body(line))
    /\ Items[7] = <<"6">>
    /\ Items[1] = <<"1", "9", "9", "9">>
    /\ Items[6] = <<"3", "9", ".", "1", "2", "3", "4", "5", "6", "7">>
    /\ out = Body(line)

(***************************************************************************)
(* C4.  LowerExp renders every Epoch as "YYYY MM DD HH MM SS.N": one digit *)
(* after the decimal point, the tenths of a second, and nothing after it.  *)
(***************************************************************************)
C4_LowerExpTenths ==
    (pc = "shown" /\ fmt = "LowerExp")
    => LET dot == find_dot(out)
       IN  /\ dot # 0
           /\ Len(out) = dot + 1
           /\ out[dot + 1] = DigitChar(to_gregorian_utc(cur)[7] \div Pow8)

(***************************************************************************)
(* C5.  A line whose split on runs of ASCII whitespace gives a token count *)
(* other than 6 or 7 is rejected with FormatError, whatever its tokens.    *)
(***************************************************************************)
C5_TokenCount ==
    (Parsed /\ TokenRuns(line) \notin {6, 7})
    => (res.kind = "Err" /\ res.err = "FormatError")

C5_Witness ==
    /\ Parsed
    /\ TokenRuns(line) = 8
    /\ Items[1] = <<"2", "0", "2", "2">>
    /\ res.kind = "Err"
    /\ res.err = "FormatError"

(***************************************************************************)
(* C6.  On a line of 6 or 7 tokens with a field that fails to parse, the   *)
(* error is that of the leftmost failing field in the order year, month,   *)
(* day, hour, minute, integer seconds, fractional seconds.                 *)
(***************************************************************************)
FieldFails ==
    <<~i32_from_str_radix(Items[1]).ok,
      ~u8_from_str_radix(Items[2]).ok,
      ~u8_from_str_radix(Items[3]).ok,
      ~u8_from_str_radix(Items[4]).ok,
      ~u8_from_str_radix(Items[5]).ok,
      IF SecHasDot THEN ~u8_from_str_radix(SecIntPart).ok
      ELSE ~u8_from_str_radix(Items[6]).ok,
      SecHasDot /\ ~u32_from_str_radix(SecFracPart).ok>>

FieldErrors ==
    <<"YearError", "MonthError", "DayError", "HoursError", "MinutesError",
      "SecondsError", "NanosecsError">>

C6_LeftmostFieldError ==
    (Parsed /\ Len(Items) \in {6, 7} /\ \E i \in 1..7 : FieldFails[i])
    => LET k == CHOOSE i \in 1..7 :
                    FieldFails[i] /\ \A j \in 1..(i - 1) : ~FieldFails[j]
       IN  res.kind = "Err" /\ res.err = FieldErrors[k]

C6_Witness ==
    /\ Parsed
    /\ Len(Items) = 7
    /\ ~FieldFails[1] /\ ~FieldFails[2]
    /\ FieldFails[3] /\ FieldFails[5] /\ FieldFails[7]
    /\ res.kind = "Err"
    /\ res.err = "DayError"

(***************************************************************************)
(* C7.  A 7-token line whose first six tokens give an Epoch and whose      *)
(* seventh token the flag parser rejects gives an Epoch with flag Ok and   *)
(* the instant of the line without its seventh token.                      *)
(***************************************************************************)
C7_RejectedFlagAbsorbed ==
    (Parsed /\ Len(Items) = 7 /\ ~EpochFlag_from_str(Items[7]).ok)
    => LET six == from_str(JoinTokens(SubSeq(Items, 1, 6), <<" ">>), overflow_checks)
       IN  six.kind = "Ok"
           => /\ res.kind = "Ok"
              /\ res.e.flag = "Ok"
              /\ res.e.epoch = six.e.epoch

C7_Witness ==
    /\ Parsed
    /\ Len(Items) = 7
    /\ Items[7] = <<"x">>
    /\ SecHasDot
    /\ res.kind = "Ok"
    /\ res.e.flag = "Ok"
    /\ to_gregorian_utc(res.e)[7] = 100000000

(***************************************************************************)
(* C8.  A year token of value y below 100 is read as the year y + 2000, a  *)
(* year of 100 or more is left as it is; "20 12 31 23 45  0.0" is in 2020. *)
(***************************************************************************)
C8_TwoDigitYear ==
    res.kind = "Ok"
    => LET y == i32_from_str_radix(Items[1]).val
       IN  /\ to_gregorian_utc(res.e)[1] = (IF y < 100 THEN y + 2000 ELSE y)
           /\ res.ctor.args[1] = (IF y < 100 THEN y + 2000 ELSE y)

C8_Witness ==
    /\ line = <<"2", "0", " ", "1", "2", " ", "3", "1", " ", "2", "3", " ",
                "4", "5", " ", " ", "0", ".", "0">>
    /\ res.kind = "Ok"
    /\ to_gregorian_utc(res.e) = <<2020, 12, 31, 23, 45, 0, 0>>

(***************************************************************************)
(* C9.  Adding and then subtracting the same Duration, or subtracting and  *)
(* then adding it, gives back an equal Epoch, and neither operation        *)
(* changes the flag.                                                       *)
(***************************************************************************)
Additions == {"add", "add_assign"}
Subtractions == {"sub", "sub_assign"}

C10_NanosBelowSecond ==
    /\ res.kind = "Ok"
          => (to_gregorian_utc(res.e)[7] >= 0
              /\ to_gregorian_utc(res.e)[7] < NanosPerSecond)
    /\ (Parsed /\ res.ctor.called) => WLess(res.ctor.args[7], W1e9)

(***************************************************************************)
(* C11.  from_str is total: every line gives an Epoch or one of the error  *)
(* kinds, and never aborts, neither on overflow when the fraction is       *)
(* scaled nor inside the calendar constructor.                             *)
(***************************************************************************)
C11_Total ==
    Parsed
    => /\ res.kind \in {"Ok", "Err"}
       /\ res.kind = "Err" => res.err \in ({"FormatError"} \cup
                                  {FieldErrors[i] : i \in 1..7})

====
